---- MODULE Spec2Model ----
(***************************************************************************)
(* Escape-room controller (src/app.py, src/mqtt_sound.py): the game state  *)
(* machine, its timer, the input snapshots, the relay bank and the events  *)
(* each operation publishes, run by concurrent threads (the main thread,   *)
(* the GPIO callback threads and the HTTP request threads) that share one  *)
(* threading.Lock.                                                         *)
(*                                                                         *)
(* Every thread has a program counter pc[t]; one action is one atomic      *)
(* step of the code: a whole `with lock:` block where no unlocked reader   *)
(* can tell the difference, otherwise one shared read or write.            *)
(***************************************************************************)
EXTENDS Naturals, Sequences, FiniteSets

\* ---------------------------------------------------------------- bounds
\* hardware edges the environment produces in one run
MaxEdges == 2
\* HTTP requests (POST /api/set_state, /api/relay/toggle, /api/poweroff) in one run
MaxRequests == 3
\* clock ticks that pass while the timer runs
MaxTicks == 1
\* callbacks and requests that begin while another one is still being handled
MaxOverlaps == 1
\* the capacity of a subscriber's queue (queue.Queue(maxsize=200), app.py:82), scaled
MaxQueue == 2
\* events published while subscribers are connected
MaxEvents == 4

\* ------------------------------------------------------- configuration
None == "NONE"
\* Optional[float]: None is the empty sequence, a reading r is <<r>>
NoTime == <<>>
ACTIVE == "ACTIVE"
INACTIVE == "INACTIVE"

\* INPUTS, in the dict's insertion order
InputOrder == <<"pushbutton 1", "pushbutton 2", "toggle 1", "toggle 2", "reed switch">>

Labels == {InputOrder[i] : i \in 1..Len(InputOrder)}

\* INPUTS[label]["role"]
InputRole == [l \in Labels |->
    CASE l = "pushbutton 1" -> "pb1"
      [] l = "pushbutton 2" -> "pb2"
      [] l = "toggle 1"     -> "t1"
      [] l = "toggle 2"     -> "t2"
      [] l = "reed switch"  -> "rs1"]

ACTIVE_WHEN_OPEN == TRUE

\* RELAYS, in the dict's insertion order
RelayOrder == <<"relay_1", "relay_2", "relay_3", "relay_4">>

RelayNames == {RelayOrder[i] : i \in 1..Len(RelayOrder)}

VALID_GAME_STATES == {"idle", "scene_1", "scene_2", "end_game"}

RELAY_PATTERNS == [s \in VALID_GAME_STATES |->
    CASE s = "idle"     -> [r \in RelayNames |-> FALSE]
      [] s = "scene_1"  -> [r \in RelayNames |-> r \in {"relay_1", "relay_3"}]
      [] s = "scene_2"  -> [r \in RelayNames |-> r \in {"relay_1", "relay_2", "relay_4"}]
      [] s = "end_game" -> [r \in RelayNames |-> r \in {"relay_3", "relay_4"}]]

\* names a request may carry: the legal ones and one that is not
RequestedStates == VALID_GAME_STATES \cup {"bogus"}

RequestedRelays == {"relay_1", "relay_9"}

\* the hardware levels at boot the model starts from: every circuit closed to GND
\* (all inputs INACTIVE)
InitialPressed == {[l \in Labels |-> TRUE]}

\* ------------------------------------------------------------- threads
\* the main thread runs main(); the workers run GPIO callbacks and requests
MainThread == "main"

WorkerOrder == <<"w1", "w2">>

Workers == {WorkerOrder[i] : i \in 1..Len(WorkerOrder)}

Threads == {MainThread} \cup Workers

\* the /events connections that may be open, each with its own queue
Subscribers == {"s1", "s2"}

VARIABLES
    game_state,          \* app.py:112
    timer_running,       \* app.py:118
    timer_started_at,    \* app.py:119, Optional[float]: <<>> or <<a clock reading>>
    timer_elapsed_base,  \* app.py:120
    now,                 \* the monotonic clock, in ticks
    current_inputs,      \* app.py:110, label -> None/ACTIVE/INACTIVE
    previous_inputs,     \* app.py:111
    is_pressed,          \* Button.is_pressed of every input device
    registered,          \* labels whose when_pressed/when_released are set
    current_relays,      \* app.py:107
    relay_devices,       \* the value each OutputDevice was last driven to
    audio_cue,           \* what the audio sink was last told to play
    lock,                \* app.py:109, None or the holding thread
    pc, op, arg, val, idx, result, burst,   \* per thread
    run_starts,          \* history: timer starts since the last entry into idle
    toggled,             \* history: a manual toggle happened since the last phase change
    edges, requests, ticks, overlaps,       \* budget counters
    clients,             \* Broadcaster._clients: the registered queues, in list order
    queues,              \* the pending events of every subscriber's queue, oldest first
    clients_copy,        \* publish: the part of its copy of _clients not yet served
    pub_event,           \* publish: the event being delivered (0: no publish in progress)
    published            \* events handed to publish so far; event n is the n-th of them

shared == <<game_state, timer_running, timer_started_at, timer_elapsed_base, now,
            current_inputs, previous_inputs, is_pressed, registered,
            current_relays, relay_devices, audio_cue, lock>>

locals == <<pc, op, arg, val, idx, result, burst>>

history == <<run_starts, toggled>>

budgets == <<edges, requests, ticks, overlaps>>

broadcast == <<clients, queues, clients_copy, pub_event, published>>

vars == <<shared, locals, history, budgets, broadcast>>

timer == <<timer_running, timer_started_at, timer_elapsed_base>>

inputs == <<current_inputs, previous_inputs>>

relays == <<current_relays, relay_devices>>

\* ------------------------------------------------------- pure helpers
now_mono == now

\* mutant of get_timer_elapsed: the running part is forgotten
get_timer_elapsed_base_only == timer_elapsed_base

get_timer_elapsed ==
    IF ~timer_running \/ timer_started_at = NoTime
    THEN timer_elapsed_base
    ELSE timer_elapsed_base + (now_mono - timer_started_at[1])

logical_active_from_button(l) ==
    LET pressed == is_pressed[l]
    IN IF ACTIVE_WHEN_OPEN THEN ~pressed ELSE pressed

StateName(is_active) == IF is_active THEN ACTIVE ELSE INACTIVE

RECURSIVE LabelByRoleFrom(_, _)
LabelByRoleFrom(role, i) ==
    IF i > Len(InputOrder) THEN None
    ELSE IF InputRole[InputOrder[i]] = role THEN InputOrder[i]
    ELSE LabelByRoleFrom(role, i + 1)

get_label_by_role(role) == LabelByRoleFrom(role, 1)

\* dict.get(label): the entry, or None for a missing key or a missing label
DictGet(d, l) == IF l \in DOMAIN d THEN d[l] ELSE None

is_active(snapshot, l) == IF l = None THEN FALSE ELSE DictGet(snapshot, l) = ACTIVE

was_inactive(prev_snapshot, l) == IF l = None THEN FALSE ELSE DictGet(prev_snapshot, l) = INACTIVE

\* mutant of RuleOutcome: the scene_1 rule fires when either pushbutton is ACTIVE
RuleOutcome_either(gs, changed_label, snapshot, prev_snapshot) ==
    LET pb1 == get_label_by_role("pb1")
        pb2 == get_label_by_role("pb2")
        t1  == get_label_by_role("t1")
        t2  == get_label_by_role("t2")
    IN  IF gs = "idle" THEN None
        ELSE IF gs = "scene_1"
             THEN IF is_active(snapshot, pb1) \/ is_active(snapshot, pb2)
                  THEN "scene_2" ELSE None
        ELSE IF gs = "scene_2"
             THEN IF changed_label = t1 /\ was_inactive(prev_snapshot, t1) /\ is_active(snapshot, t1)
                  THEN "end_game" ELSE None
        ELSE IF gs = "end_game"
             THEN IF changed_label = t2 /\ was_inactive(prev_snapshot, t2) /\ is_active(snapshot, t2)
                  THEN "stop_timer" ELSE None
        ELSE None

\* mutant of RuleOutcome: the scene_2 rule is a level check of toggle 1, whichever
\* input changed
RuleOutcome_level(gs, changed_label, snapshot, prev_snapshot) ==
    LET pb1 == get_label_by_role("pb1")
        pb2 == get_label_by_role("pb2")
        t1  == get_label_by_role("t1")
        t2  == get_label_by_role("t2")
    IN  IF gs = "idle" THEN None
        ELSE IF gs = "scene_1"
             THEN IF is_active(snapshot, pb1) /\ is_active(snapshot, pb2)
                  THEN "scene_2" ELSE None
        ELSE IF gs = "scene_2"
             THEN IF is_active(snapshot, t1)
                  THEN "end_game" ELSE None
        ELSE IF gs = "end_game"
             THEN IF changed_label = t2 /\ was_inactive(prev_snapshot, t2) /\ is_active(snapshot, t2)
                  THEN "stop_timer" ELSE None
        ELSE None

\* what evaluate_rules_on_change decides from the copies it took under the lock:
\* a phase to enter, "stop_timer", or None
RuleOutcome(gs, changed_label, snapshot, prev_snapshot) ==
    LET pb1 == get_label_by_role("pb1")
        pb2 == get_label_by_role("pb2")
        t1  == get_label_by_role("t1")
        t2  == get_label_by_role("t2")
    IN  IF gs = "idle" THEN None
        ELSE IF gs = "scene_1"
             THEN IF is_active(snapshot, pb1) /\ is_active(snapshot, pb2)
                  THEN "scene_2" ELSE None
        ELSE IF gs = "scene_2"
             THEN IF changed_label = t1 /\ was_inactive(prev_snapshot, t1) /\ is_active(snapshot, t1)
                  THEN "end_game" ELSE None
        ELSE IF gs = "end_game"
             THEN IF changed_label = t2 /\ was_inactive(prev_snapshot, t2) /\ is_active(snapshot, t2)
                  THEN "stop_timer" ELSE None
        ELSE None

\* an event as broadcaster.publish receives it: its type and the fields it carries
\* that are read from the program's state (label/state of an input or relay event,
\* game_state, timer.running)
Event(type, label, state, gs, running) ==
    [type |-> type, label |-> label, state |-> state, game_state |-> gs, running |-> running]

\* broadcaster.publish(evt) by thread t, as the game logic sees it: the event is
\* handed over and the call returns; burst[t] records what t has handed over. The
\* delivery to the subscribers' queues is modelled by publish_copy, publish_put
\* and publish_return
Publish(t, evt) == burst' = [burst EXCEPT ![t] = Append(@, evt)]

\* ------------------------------------------------------------ initial
\* the state after the module is loaded and main() has run init_relays()
Init ==
    /\ game_state = "idle"
    /\ timer_running = FALSE
    /\ timer_started_at = NoTime
    /\ timer_elapsed_base = 0
    /\ now = 0
    /\ current_inputs = [l \in Labels |-> None]
    /\ previous_inputs = [l \in Labels |-> None]
    /\ is_pressed \in InitialPressed
    /\ registered = {}
    /\ current_relays = [r \in RelayNames |-> FALSE]
    /\ relay_devices = [r \in RelayNames |-> FALSE]
    /\ audio_cue = None
    /\ lock = None
    /\ pc = [t \in Threads |-> IF t = MainThread THEN "init_gpio" ELSE "idle"]
    /\ op = [t \in Threads |-> IF t = MainThread THEN "boot" ELSE None]
    /\ arg = [t \in Threads |-> IF t = MainThread THEN InputOrder[1] ELSE None]
    /\ val = [t \in Threads |-> None]
    /\ idx = [t \in Threads |-> 1]
    /\ result = [t \in Threads |-> None]
    /\ burst = [t \in Threads |-> <<>>]
    /\ run_starts = 0
    /\ toggled = FALSE
    /\ edges = 0
    /\ requests = 0
    /\ ticks = 0
    /\ overlaps = 0
    /\ clients = <<>>
    /\ queues = [q \in Subscribers |-> <<>>]
    /\ clients_copy = <<>>
    /\ pub_event = 0
    /\ published = 0

\* ------------------------------------------------------ thread control
\* a thread's locals when it takes up operation o with argument a at p; r is the
\* answer when the operation ends at once
StartWith(t, o, p, a, r) ==
    /\ pc' = [pc EXCEPT ![t] = p]
    /\ op' = [op EXCEPT ![t] = o]
    /\ arg' = [arg EXCEPT ![t] = a]
    /\ val' = [val EXCEPT ![t] = None]
    /\ idx' = [idx EXCEPT ![t] = 1]
    /\ result' = [result EXCEPT ![t] = r]
    /\ burst' = [burst EXCEPT ![t] = <<>>]

Start(t, o, p, a) == StartWith(t, o, p, a, None)

\* the free worker a new callback or request runs on (workers are interchangeable)
FreeWorker(t) ==
    /\ t \in Workers
    /\ pc[t] = "idle"
    /\ \A i, j \in 1..Len(WorkerOrder) :
         (WorkerOrder[j] = t /\ i < j) => pc[WorkerOrder[i]] # "idle"

\* a callback or request begins on worker t, possibly while another worker is busy
Begin(t) ==
    /\ FreeWorker(t)
    /\ IF \E u \in Threads \ {t} : pc[u] \notin {"idle", "serving"}
       THEN /\ overlaps < MaxOverlaps
            /\ overlaps' = overlaps + 1
       ELSE UNCHANGED overlaps

\* app.run() has been reached: requests are served
Serving == pc[MainThread] = "serving"

Goto(t, p) == pc' = [pc EXCEPT ![t] = p]

\* the operation of thread t returns r to its caller: a callback ends, a request
\* handler answers, main() goes on to app.run()
Return(t, r) ==
    /\ pc' = [pc EXCEPT ![t] = IF op[t] = "boot" THEN "serving" ELSE "ret"]
    /\ result' = [result EXCEPT ![t] = r]

\* the thread is handed back to the pool
finish(t) ==
    /\ pc[t] = "ret"
    /\ Start(t, None, "idle", None)
    /\ UNCHANGED <<broadcast, shared, history, budgets>>

\* ---------------------------------------------------------- the clock
\* time passes; only differences to timer_started_at are ever observed, so the
\* clock is let run only while the timer does
Tick ==
    /\ timer_running
    /\ ticks < MaxTicks
    /\ now' = now + 1
    /\ ticks' = ticks + 1
    /\ UNCHANGED <<broadcast, game_state, timer, inputs, is_pressed, registered, relays,
                   audio_cue, lock, locals, history, edges, requests, overlaps>>

\* ------------------------------------------------------------- inputs
\* init_gpio, one loop iteration up to the first reading (app.py:339-349)
init_gpio_read(t) ==
    /\ pc[t] = "init_gpio"
    /\ val' = [val EXCEPT ![t] = StateName(logical_active_from_button(arg[t]))]
    /\ Goto(t, "sis_lock")
    /\ UNCHANGED <<broadcast, shared, op, arg, idx, result, burst, history, budgets>>

\* the hardware level of a registered input changes: gpiozero fires on_change
\* (when_pressed / when_released, app.py:357-358) on a callback thread
Edge(t, l) ==
    /\ Begin(t)
    /\ l \in registered
    /\ edges < MaxEdges
    /\ is_pressed' = [is_pressed EXCEPT ![l] = ~@]
    /\ edges' = edges + 1
    /\ Start(t, "callback", "on_change", l)
    /\ UNCHANGED <<broadcast, game_state, timer, now, inputs, registered, relays, audio_cue,
                   lock, history, requests, ticks>>

\* on_change reads the button (app.py:352-353, 268)
on_change_read(t) ==
    /\ pc[t] = "on_change"
    /\ val' = [val EXCEPT ![t] = StateName(logical_active_from_button(arg[t]))]
    /\ Goto(t, "sis_lock")
    /\ UNCHANGED <<broadcast, shared, op, arg, idx, result, burst, history, budgets>>

\* mutant of set_input_state: previous_inputs is overwritten with a copy of the
\* whole current snapshot
set_input_state_copy_all(t) ==
    /\ pc[t] = "sis_lock"
    /\ lock = None
    /\ LET prev == DictGet(current_inputs, arg[t])
       IN /\ previous_inputs' = [current_inputs EXCEPT
                                   ![arg[t]] = IF prev # None THEN prev ELSE val[t]]
          /\ current_inputs' = [current_inputs EXCEPT ![arg[t]] = val[t]]
    /\ Publish(t, Event("input", arg[t], val[t], None, None))
    /\ IF op[t] = "boot"
       THEN /\ registered' = registered \cup {arg[t]}
            /\ \E i \in 1..Len(InputOrder) :
                 /\ InputOrder[i] = arg[t]
                 /\ IF i < Len(InputOrder)
                    THEN /\ arg' = [arg EXCEPT ![t] = InputOrder[i + 1]]
                         /\ Goto(t, "init_gpio")
                    ELSE /\ arg' = [arg EXCEPT ![t] = None]
                         /\ Goto(t, "boot_full")
       ELSE /\ Goto(t, "ev_lock")
            /\ UNCHANGED <<registered, arg>>
    /\ UNCHANGED <<broadcast, game_state, timer, now, is_pressed, relays, audio_cue,
                   lock, op, val, idx, result, history, budgets>>

\* set_input_state: the locked block, then the input event (app.py:269-279);
\* in init_gpio the callbacks of the label are then registered and the loop goes
\* on to the next label (app.py:351-358)
set_input_state(t) ==
    /\ pc[t] = "sis_lock"
    /\ lock = None
    /\ LET prev == DictGet(current_inputs, arg[t])
       IN /\ previous_inputs' = [previous_inputs EXCEPT
                                   ![arg[t]] = IF prev # None THEN prev ELSE val[t]]
          /\ current_inputs' = [current_inputs EXCEPT ![arg[t]] = val[t]]
    /\ Publish(t, Event("input", arg[t], val[t], None, None))
    /\ IF op[t] = "boot"
       THEN /\ registered' = registered \cup {arg[t]}
            /\ \E i \in 1..Len(InputOrder) :
                 /\ InputOrder[i] = arg[t]
                 /\ IF i < Len(InputOrder)
                    THEN /\ arg' = [arg EXCEPT ![t] = InputOrder[i + 1]]
                         /\ Goto(t, "init_gpio")
                    ELSE /\ arg' = [arg EXCEPT ![t] = None]
                         /\ Goto(t, "boot_full")
       ELSE /\ Goto(t, "ev_lock")
            /\ UNCHANGED <<registered, arg>>
    /\ UNCHANGED <<broadcast, game_state, timer, now, is_pressed, relays, audio_cue,
                   lock, op, val, idx, result, history, budgets>>

\* where a call of set_game_state(new_state) goes after its validity check (app.py:193-194)
set_game_state_entry(new_state) ==
    IF new_state \notin VALID_GAME_STATES THEN "ret" ELSE "sgs_lock"

\* evaluate_rules_on_change: the copies taken under the lock and the rule they
\* select (app.py:293-334); the rule reads only those copies
evaluate_rules_on_change(t) ==
    /\ pc[t] = "ev_lock"
    /\ lock = None
    /\ LET outcome == RuleOutcome(game_state, arg[t], current_inputs, previous_inputs)
       IN IF outcome = None
          THEN /\ Return(t, None)
               /\ UNCHANGED arg
          ELSE IF outcome = "stop_timer"
          THEN /\ Goto(t, "st_lock")
               /\ UNCHANGED <<arg, result>>
          ELSE /\ arg' = [arg EXCEPT ![t] = outcome]
               /\ Goto(t, set_game_state_entry(outcome))
               /\ UNCHANGED result
    /\ UNCHANGED <<broadcast, shared, op, val, idx, burst, history, budgets>>

\* mutant of stop_timer: the start reading is not cleared
stop_timer_keeps_start(t) ==
    /\ pc[t] = "st_lock"
    /\ lock = None
    /\ IF ~timer_running
       THEN /\ UNCHANGED <<timer, burst>>
       ELSE /\ timer_elapsed_base' = get_timer_elapsed
            /\ timer_running' = FALSE
            /\ UNCHANGED timer_started_at
            /\ Publish(t, Event("timer", None, None, None, FALSE))
    /\ Return(t, None)
    /\ UNCHANGED <<broadcast, game_state, now, inputs, is_pressed, registered, relays, audio_cue,
                   lock, op, arg, val, idx, history, budgets>>

\* stop_timer: the locked block, then the timer event (app.py:243-257)
stop_timer(t) ==
    /\ pc[t] = "st_lock"
    /\ lock = None
    /\ IF ~timer_running
       THEN /\ UNCHANGED <<timer, burst>>
       ELSE /\ timer_elapsed_base' = get_timer_elapsed
            /\ timer_running' = FALSE
            /\ timer_started_at' = NoTime
            /\ Publish(t, Event("timer", None, None, None, FALSE))
    /\ Return(t, None)
    /\ UNCHANGED <<broadcast, game_state, now, inputs, is_pressed, registered, relays, audio_cue,
                   lock, op, arg, val, idx, history, budgets>>

\* publish_full_state("boot") at the end of init_gpio, then main() calls
\* set_game_state("idle", "boot_to_idle") (app.py:361, 506)
init_gpio_publish(t) ==
    /\ pc[t] = "boot_full"
    /\ Publish(t, Event("full_state", None, None, game_state, timer_running))
    /\ arg' = [arg EXCEPT ![t] = "idle"]
    /\ Goto(t, set_game_state_entry("idle"))
    /\ UNCHANGED <<broadcast, shared, op, val, idx, result, history, budgets>>

\* ------------------------------------------------------ audio sink
\* mqtt_sound: the command the audio service is sent
panic == audio_cue' = "silence"

bg_start(filename) == audio_cue' = filename

bg_switch(filename) == audio_cue' = filename

\* ------------------------------------------------------ set_game_state
\* with lock: game_state = new_state (app.py:196-197)
set_game_state_lock(t) ==
    /\ pc[t] = "sgs_lock"
    /\ lock = None
    /\ lock' = t
    /\ game_state' = arg[t]
    /\ toggled' = FALSE
    /\ run_starts' = IF arg[t] = "idle" THEN 0 ELSE run_starts
    /\ Goto(t, "sgs_branch")
    /\ UNCHANGED <<broadcast, timer, now, inputs, is_pressed, registered, relays, audio_cue,
                   op, arg, val, idx, result, burst, budgets>>

\* mutant of timer_reset: the start reading is not cleared
timer_reset_keeps_start ==
    /\ timer_running' = FALSE
    /\ timer_elapsed_base' = 0
    /\ UNCHANGED <<broadcast, timer_started_at, now, run_starts>>

\* the timer rule of the idle branch (app.py:206-208)
timer_reset ==
    /\ timer_running' = FALSE
    /\ timer_started_at' = NoTime
    /\ timer_elapsed_base' = 0
    /\ UNCHANGED <<broadcast, now, run_starts>>

\* mutant of timer_start_once: only "not running" is tested
timer_start_if_stopped ==
    IF ~timer_running
    THEN /\ timer_started_at' = <<now_mono>>
         /\ timer_running' = TRUE
         /\ now' = now + 1
         /\ run_starts' = run_starts + 1
         /\ UNCHANGED timer_elapsed_base
    ELSE UNCHANGED <<timer, now, run_starts>>

\* the timer rule of the scene_1 branch (app.py:217-219). The reading taken at a
\* start is earlier than every later reading of the clock.
timer_start_once ==
    IF ~timer_running /\ timer_started_at = NoTime /\ timer_elapsed_base = 0
    THEN /\ timer_started_at' = <<now_mono>>
         /\ timer_running' = TRUE
         /\ now' = now + 1
         /\ run_starts' = run_starts + 1
         /\ UNCHANGED timer_elapsed_base
    ELSE UNCHANGED <<timer, now, run_starts>>

\* mutant of set_game_state_branch: entering end_game stops the timer
set_game_state_branch_stops(t) ==
    /\ pc[t] = "sgs_branch"
    /\ lock = t
    /\ CASE arg[t] = "idle"     -> panic /\ timer_reset /\ UNCHANGED lock
         [] arg[t] = "scene_1"  -> bg_start("state1.mp3") /\ timer_start_once /\ lock' = None
         [] arg[t] = "scene_2"  -> bg_switch("state2.mp3") /\ lock' = None
                                   /\ UNCHANGED <<timer, now, run_starts>>
         [] arg[t] = "end_game" -> bg_switch("state3.mp3") /\ lock' = None
                                   /\ timer_elapsed_base' = get_timer_elapsed
                                   /\ timer_running' = FALSE
                                   /\ timer_started_at' = NoTime
                                   /\ UNCHANGED <<now, run_starts>>
    /\ Goto(t, "arp_loop")
    /\ UNCHANGED <<broadcast, game_state, inputs, is_pressed, registered, relays,
                   op, arg, val, idx, result, burst, toggled, budgets>>

\* the branch of new_state, run with the lock held (app.py:204-224): the audio
\* cue and the timer rule. The idle branch goes on to apply_relay_pattern("idle")
\* inside the with block; the other branches leave the block
set_game_state_branch(t) ==
    /\ pc[t] = "sgs_branch"
    /\ lock = t
    /\ CASE arg[t] = "idle"     -> panic /\ timer_reset /\ UNCHANGED lock
         [] arg[t] = "scene_1"  -> bg_start("state1.mp3") /\ timer_start_once /\ lock' = None
         [] arg[t] = "scene_2"  -> bg_switch("state2.mp3") /\ lock' = None
                                   /\ UNCHANGED <<timer, now, run_starts>>
         [] arg[t] = "end_game" -> bg_switch("state3.mp3") /\ lock' = None
                                   /\ UNCHANGED <<timer, now, run_starts>>
    /\ Goto(t, "arp_loop")
    /\ UNCHANGED <<broadcast, game_state, inputs, is_pressed, registered, relays,
                   op, arg, val, idx, result, burst, toggled, budgets>>

\* --------------------------------------------------- apply_relay_pattern
\* one iteration of the loop (app.py:171-179): the device of relay idx[t] is
\* switched and current_relays records it; the state name is a key of
\* RELAY_PATTERNS and every relay has its device
apply_relay_pattern_relay(t) ==
    /\ pc[t] = "arp_loop"
    /\ LET relay_name == RelayOrder[idx[t]]
           on == RELAY_PATTERNS[arg[t]][relay_name]
       IN /\ relay_devices' = [relay_devices EXCEPT ![relay_name] = on]
          /\ current_relays' = [current_relays EXCEPT ![relay_name] = on]
    /\ IF idx[t] < Len(RelayOrder)
       THEN /\ idx' = [idx EXCEPT ![t] = @ + 1]
            /\ UNCHANGED pc
       ELSE /\ idx' = [idx EXCEPT ![t] = 1]
            /\ Goto(t, "arp_pub")
    /\ UNCHANGED <<broadcast, game_state, timer, now, inputs, is_pressed, registered,
                   audio_cue, lock, op, arg, val, result, burst, history, budgets>>

\* the relays event (app.py:181-187). The call made inside the idle branch
\* (app.py:209) publishes with the lock held and returns into the with block,
\* which then ends; the call after the block (app.py:226) is followed by the
\* game_state event (app.py:228-233)
apply_relay_pattern_publish(t) ==
    /\ pc[t] = "arp_pub"
    /\ IF lock = t
       THEN /\ Publish(t, Event("relays", None, arg[t], None, None))
            /\ lock' = None
            /\ Goto(t, "arp_loop")
       ELSE /\ burst' = [burst EXCEPT ![t] =
                           @ \o <<Event("relays", None, arg[t], None, None),
                                  Event("game_state", None, None, arg[t], None)>>]
            /\ Goto(t, "sgs_pub_timer")
            /\ UNCHANGED lock
    /\ UNCHANGED <<broadcast, game_state, timer, now, inputs, is_pressed, registered, relays,
                   audio_cue, op, arg, val, idx, result, history, budgets>>

\* mutant of set_game_state_publish_timer: a full_state event is published where
\* the timer event belongs
set_game_state_publish_timer_as_full(t) ==
    /\ pc[t] = "sgs_pub_timer"
    /\ Publish(t, Event("full_state", None, None, game_state, timer_running))
    /\ Goto(t, "sgs_pub_full")
    /\ UNCHANGED <<broadcast, shared, op, arg, val, idx, result, history, budgets>>

\* the timer event, which reads timer_running without the lock (app.py:234-239)
set_game_state_publish_timer(t) ==
    /\ pc[t] = "sgs_pub_timer"
    /\ Publish(t, Event("timer", None, None, None, timer_running))
    /\ Goto(t, "sgs_pub_full")
    /\ UNCHANGED <<broadcast, shared, op, arg, val, idx, result, history, budgets>>

\* publish_full_state, which reads the globals without the lock (app.py:134-146,
\* 240); set_game_state returns and api_set_state answers ok (app.py:404)
set_game_state_publish_full(t) ==
    /\ pc[t] = "sgs_pub_full"
    /\ Publish(t, Event("full_state", None, None, game_state, timer_running))
    /\ Return(t, IF op[t] = "admin" THEN "ok" ELSE None)
    /\ UNCHANGED <<broadcast, shared, op, arg, val, idx, history, budgets>>

\* ------------------------------------------------------ request handlers
\* mutant of api_set_state: the handler does not check the name itself
api_set_state_unchecked(t, new_state) ==
    /\ Serving
    /\ Begin(t)
    /\ requests < MaxRequests
    /\ requests' = requests + 1
    /\ StartWith(t, "admin", set_game_state_entry(new_state), new_state,
                 IF new_state \notin VALID_GAME_STATES THEN "ok" ELSE None)
    /\ UNCHANGED <<broadcast, shared, history, edges, ticks>>

\* POST /api/set_state (app.py:396-404)
api_set_state(t, new_state) ==
    /\ Serving
    /\ Begin(t)
    /\ requests < MaxRequests
    /\ requests' = requests + 1
    /\ IF new_state \notin VALID_GAME_STATES
       THEN StartWith(t, "admin", "ret", new_state, "invalid_state")
       ELSE Start(t, "admin", set_game_state_entry(new_state), new_state)
    /\ UNCHANGED <<broadcast, shared, history, edges, ticks>>

\* POST /api/relay/toggle, up to the name check (app.py:406-411)
api_relay_toggle(t, name) ==
    /\ Serving
    /\ Begin(t)
    /\ requests < MaxRequests
    /\ requests' = requests + 1
    /\ IF name \notin DOMAIN relay_devices
       THEN StartWith(t, "toggle", "ret", name, "unknown_relay")
       ELSE Start(t, "toggle", "rt_lock", name)
    /\ UNCHANGED <<broadcast, shared, history, edges, ticks>>

\* with lock: current_relays[name] = not current_relays[name] (app.py:413-416)
api_relay_toggle_lock(t) ==
    /\ pc[t] = "rt_lock"
    /\ lock = None
    /\ LET cur == current_relays[arg[t]]
           new == ~cur
       IN /\ current_relays' = [current_relays EXCEPT ![arg[t]] = new]
          /\ val' = [val EXCEPT ![t] = IF new THEN "on" ELSE "off"]
    /\ toggled' = TRUE
    /\ Goto(t, "rt_dev")
    /\ UNCHANGED <<broadcast, game_state, timer, now, inputs, is_pressed, registered, relay_devices,
                   audio_cue, lock, op, arg, idx, result, burst, run_starts, budgets>>

\* dev.on() / dev.off(), then the relay event and the answer (app.py:418-432);
\* val[t] holds the local `new` as "on" / "off"
api_relay_toggle_device(t) ==
    /\ pc[t] = "rt_dev"
    /\ relay_devices' = [relay_devices EXCEPT ![arg[t]] = (val[t] = "on")]
    /\ Publish(t, Event("relay", arg[t], val[t], None, None))
    /\ Return(t, "ok")
    /\ UNCHANGED <<broadcast, game_state, timer, now, inputs, is_pressed, registered, current_relays,
                   audio_cue, lock, op, arg, val, idx, history, budgets>>

\* POST /api/poweroff: the check of the phase, read without the lock (app.py:434-438)
api_poweroff(t) ==
    /\ Serving
    /\ Begin(t)
    /\ requests < MaxRequests
    /\ requests' = requests + 1
    /\ IF game_state # "idle"
       THEN StartWith(t, "poweroff", "ret", None, "not_idle")
       ELSE Start(t, "poweroff", "po_cmd", None)
    /\ UNCHANGED <<broadcast, shared, history, edges, ticks>>

\* the system event, then the poweroff command is spawned and the handler answers
\* ok (app.py:440-453)
api_poweroff_command(t) ==
    /\ pc[t] = "po_cmd"
    /\ Publish(t, Event("system", None, "poweroff", None, None))
    /\ Return(t, "ok")
    /\ UNCHANGED <<broadcast, shared, op, arg, val, idx, history, budgets>>

\* ---------------------------------------------------------- Broadcaster
\* the elements of a sequence
Range(seq) == {seq[i] : i \in 1..Len(seq)}

\* list.remove(q)
Remove(seq, q) == SelectSeq(seq, LAMBDA x : x # q)

\* GET /events: Broadcaster.register creates the queue and appends it (app.py:81-85)
register(q) ==
    /\ q \notin Range(clients)
    /\ clients' = Append(clients, q)
    /\ queues' = [queues EXCEPT ![q] = <<>>]
    /\ UNCHANGED <<shared, locals, history, budgets, clients_copy, pub_event, published>>

\* the connection closes: Broadcaster.unregister (app.py:87-90, 468-469)
unregister(q) ==
    /\ q \in Range(clients)
    /\ clients' = Remove(clients, q)
    /\ UNCHANGED <<shared, locals, history, budgets, queues, clients_copy, pub_event, published>>

\* the generator of a connection takes the oldest pending event (q.get(), app.py:464)
get(q) ==
    /\ q \in Range(clients)
    /\ queues[q] # <<>>
    /\ queues' = [queues EXCEPT ![q] = Tail(@)]
    /\ UNCHANGED <<shared, locals, history, budgets, clients, clients_copy, pub_event, published>>

\* publish: clients = list(self._clients) under the broadcaster's lock (app.py:93-94)
publish_copy ==
    /\ pub_event = 0
    /\ published < MaxEvents
    /\ published' = published + 1
    /\ pub_event' = published + 1
    /\ clients_copy' = clients
    /\ UNCHANGED <<shared, locals, history, budgets, clients, queues>>

\* q.put_nowait(event) with queue.Full passed over (app.py:96-99): the queue after
\* the call
put_nowait(pending, event) ==
    IF Len(pending) >= MaxQueue THEN pending ELSE Append(pending, event)

\* publish: one iteration of the loop over the copy (app.py:95-99)
publish_put ==
    /\ pub_event # 0
    /\ clients_copy # <<>>
    /\ LET q == Head(clients_copy)
       IN queues' = [queues EXCEPT ![q] = put_nowait(@, pub_event)]
    /\ clients_copy' = Tail(clients_copy)
    /\ UNCHANGED <<shared, locals, history, budgets, clients, pub_event, published>>

\* publish: the loop is over and the call returns
publish_return ==
    /\ pub_event # 0
    /\ clients_copy = <<>>
    /\ pub_event' = 0
    /\ UNCHANGED <<shared, locals, history, budgets, clients, queues, clients_copy, published>>

\* ------------------------------------------------------- specification
Next ==
    \/ Tick
    \/ \E t \in Threads :
         \/ init_gpio_read(t)
         \/ init_gpio_publish(t)
         \/ \E l \in Labels : Edge(t, l)
         \/ on_change_read(t)
         \/ set_input_state(t)
         \/ evaluate_rules_on_change(t)
         \/ stop_timer(t)
         \/ set_game_state_lock(t)
         \/ set_game_state_branch(t)
         \/ apply_relay_pattern_relay(t)
         \/ apply_relay_pattern_publish(t)
         \/ set_game_state_publish_timer(t)
         \/ set_game_state_publish_full(t)
         \/ \E s \in RequestedStates : api_set_state(t, s)
         \/ \E n \in RequestedRelays : api_relay_toggle(t, n)
         \/ api_relay_toggle_lock(t)
         \/ api_relay_toggle_device(t)
         \/ api_poweroff(t)
         \/ api_poweroff_command(t)
         \/ finish(t)

\* the controller with no /events connection open: publish copies an empty list
Spec == Init /\ [][Next]_vars

\* the steps thread t takes by itself once it has been given a callback or a
\* request: everything but the arrival of an edge or a request and the clock
ThreadStep(t) ==
    \/ init_gpio_read(t)
    \/ init_gpio_publish(t)
    \/ on_change_read(t)
    \/ set_input_state(t)
    \/ evaluate_rules_on_change(t)
    \/ stop_timer(t)
    \/ set_game_state_lock(t)
    \/ set_game_state_branch(t)
    \/ apply_relay_pattern_relay(t)
    \/ apply_relay_pattern_publish(t)
    \/ set_game_state_publish_timer(t)
    \/ set_game_state_publish_full(t)
    \/ api_relay_toggle_lock(t)
    \/ api_relay_toggle_device(t)
    \/ api_poweroff_command(t)
    \/ finish(t)

\* the controller on a scheduler that lets every thread that can run go on: no
\* thread sleeps or waits for anything but the state lock, which every holder
\* releases after finitely many steps of its own
FairSpec == Spec /\ \A t \in Threads : WF_vars(ThreadStep(t))

\* the broadcaster between its publishers and the /events connections
BroadcastNext ==
    \/ \E q \in Subscribers : register(q)
    \/ \E q \in Subscribers : unregister(q)
    \/ \E q \in Subscribers : get(q)
    \/ publish_copy
    \/ publish_put
    \/ publish_return

BroadcastSpec == Init /\ [][BroadcastNext]_vars

TypeOK ==
    /\ game_state \in VALID_GAME_STATES
    /\ timer_running \in BOOLEAN
    /\ lock \in Threads \cup {None}
    /\ \A t \in Threads : idx[t] \in 1..Len(RelayOrder)

\* ------------------------------------------------------------- claims
\* thread t takes the step
Steps(t) == pc'[t] # pc[t] \/ idx'[t] # idx[t]

\* thread t is inside a call of set_game_state
InSetGameState(t) ==
    pc[t] \in {"sgs_lock", "sgs_branch", "arp_loop", "arp_pub", "sgs_pub_timer", "sgs_pub_full"}

TimerIsReset == ~timer_running /\ timer_started_at = NoTime /\ timer_elapsed_base = 0

\* thread t has published a timer event in its current operation
PublishedTimer(t) == \E i \in 1..Len(burst[t]) : burst[t][i].type = "timer"

\* C1: between two entries into idle (or boot and the first one) the timer goes
\* from not running to running at most once, and entering scene_1 leaves the timer
\* alone when it is running, has time accumulated or has a start reading.
C1_TimerStartsOncePerRun ==
    [][/\ run_starts' <= 1
       /\ \A t \in Threads :
            (/\ pc[t] = "sgs_branch" /\ Steps(t) /\ arg[t] = "scene_1"
             /\ (timer_running \/ timer_elapsed_base > 0 \/ timer_started_at # NoTime))
               => UNCHANGED timer]_vars

\* C1 witness: scene_1 was entered again after the timer had run and been stopped
\* with time accumulated, and the timer was left as it was.
C1_Witness ==
    \E t \in Workers :
        /\ op[t] = "admin" /\ arg[t] = "scene_1" /\ pc[t] = "arp_loop" /\ lock # t
        /\ ~timer_running /\ timer_started_at = NoTime /\ timer_elapsed_base > 0
        /\ run_starts = 1

\* C2: the step by which set_game_state("idle") releases the lock leaves the
\* timer at running = false, started_at = None, elapsed_base = 0.
C2_IdleResetsTimer ==
    [][\A t \in Threads :
          (lock = t /\ lock' # t /\ arg[t] = "idle") => TimerIsReset']_vars

\* C2 witness: a request for idle has left its locked block with the timer reset,
\* while the callback that had stopped the timer with time accumulated is still
\* returning.
C2_Witness ==
    \E t, u \in Workers :
        /\ op[t] = "admin" /\ arg[t] = "idle" /\ pc[t] = "arp_loop" /\ lock # t
        /\ TimerIsReset
        /\ op[u] = "callback" /\ pc[u] = "ret" /\ PublishedTimer(u)

\* C3: whenever no set_game_state call is in progress and no manual toggle has
\* happened since the last phase change, current_relays is the pattern of the
\* current phase.
C3_RelaysMatchPhase ==
    ((\A t \in Threads : ~InSetGameState(t)) /\ ~toggled)
        => current_relays = RELAY_PATTERNS[game_state]

\* C4: an evaluation of the rules in scene_1 calls set_game_state("scene_2") when
\* pushbutton 1 and pushbutton 2 both read ACTIVE, and that call makes scene_2 the
\* phase; when at most one of them reads ACTIVE the callback returns and the
\* phase stays.
C4_Scene1Rule ==
    [][\A t \in Threads :
          /\ (pc[t] = "ev_lock" /\ Steps(t) /\ game_state = "scene_1") =>
                IF current_inputs["pushbutton 1"] = ACTIVE /\ current_inputs["pushbutton 2"] = ACTIVE
                THEN pc'[t] = "sgs_lock" /\ arg'[t] = "scene_2" /\ game_state' = game_state
                ELSE pc'[t] = "ret" /\ game_state' = game_state
          /\ (pc[t] = "sgs_lock" /\ Steps(t) /\ op[t] = "callback" /\ arg[t] = "scene_2")
                => game_state' = "scene_2"]_vars

\* C4 witness: a callback that found both pushbuttons ACTIVE has made scene_2 the phase.
C4_Witness ==
    \E t \in Workers :
        /\ op[t] = "callback" /\ arg[t] = "scene_2" /\ pc[t] = "sgs_branch"
        /\ game_state = "scene_2"
        /\ current_inputs["pushbutton 1"] = ACTIVE /\ current_inputs["pushbutton 2"] = ACTIVE

\* toggle 1 shows a strict INACTIVE -> ACTIVE edge
Toggle1Rose == previous_inputs["toggle 1"] = INACTIVE /\ current_inputs["toggle 1"] = ACTIVE

\* C5: an evaluation of the rules in scene_2 calls set_game_state("end_game") only
\* when the changed input is toggle 1 and toggle 1 went from INACTIVE to ACTIVE;
\* otherwise the callback returns and the phase stays.
C5_Scene2Rule ==
    [][\A t \in Threads :
          (pc[t] = "ev_lock" /\ Steps(t) /\ game_state = "scene_2") =>
             /\ game_state' = game_state
             /\ pc'[t] # "ret" => (arg[t] = "toggle 1" /\ Toggle1Rose)
             /\ ~(arg[t] = "toggle 1" /\ Toggle1Rose) => pc'[t] = "ret"
             /\ pc'[t] # "ret" => (pc'[t] = "sgs_lock" /\ arg'[t] = "end_game")]_vars

\* C5 witness: in scene_2 the rules are about to be evaluated for a change of
\* another input while toggle 1 shows its rising edge.
C5_Witness ==
    \E t \in Workers :
        /\ op[t] = "callback" /\ pc[t] = "ev_lock" /\ arg[t] # "toggle 1"
        /\ game_state = "scene_2" /\ lock = None
        /\ Toggle1Rose

\* C6: in end_game a rising edge of toggle 2 calls stop_timer, and stop_timer on
\* a running timer sets running to false, clears started_at, sets elapsed_base
\* to the time elapsed at that moment and leaves the phase alone.
C6_Toggle2StopsTimer ==
    [][\A t \in Threads :
          /\ (/\ pc[t] = "ev_lock" /\ Steps(t) /\ game_state = "end_game"
              /\ arg[t] = "toggle 2"
              /\ previous_inputs["toggle 2"] = INACTIVE
              /\ current_inputs["toggle 2"] = ACTIVE)
                => (pc'[t] = "st_lock" /\ game_state' = game_state)
          /\ (pc[t] = "st_lock" /\ Steps(t) /\ timer_running) =>
                /\ ~timer_running'
                /\ timer_started_at' = NoTime
                /\ timer_elapsed_base' = timer_elapsed_base + (now - timer_started_at[1])
                /\ timer_elapsed_base' > 0
                /\ game_state' = game_state]_vars

\* C6 witness: in end_game the callback of toggle 2 has stopped the running timer.
C6_Witness ==
    \E t \in Workers :
        /\ op[t] = "callback" /\ arg[t] = "toggle 2" /\ pc[t] = "ret" /\ PublishedTimer(t)
        /\ game_state = "end_game"
        /\ ~timer_running /\ timer_started_at = NoTime /\ timer_elapsed_base > 0

\* C7: a phase-change request with an unknown name leaves phase, timer and relays
\* as they are, publishes nothing and answers with the failure; game_state is
\* always one of the four legal values.
C7_UnknownPhaseRejected ==
    [][/\ game_state' \in VALID_GAME_STATES
       /\ \A t \in Threads :
            (pc[t] = "idle" /\ op'[t] = "admin" /\ arg'[t] \notin VALID_GAME_STATES) =>
               /\ pc'[t] = "ret"
               /\ result'[t] = "invalid_state"
               /\ burst'[t] = <<>>
               /\ UNCHANGED <<game_state, timer, relays>>]_vars

\* C7 witness: a request with an unknown name has been answered.
C7_Witness ==
    \E t \in Workers :
        /\ op[t] = "admin" /\ arg[t] \notin VALID_GAME_STATES /\ pc[t] = "ret"
        /\ game_state # "idle"

\* C8: set_input_state sets current_inputs[label] to the new value and
\* previous_inputs[label] to the value current_inputs[label] had just before (the
\* new value on the label's first reading), and changes no other label's entries.
C8_SnapshotUpdate ==
    [][\A t \in Threads :
          (pc[t] = "sis_lock" /\ Steps(t)) =>
             /\ current_inputs' = [current_inputs EXCEPT ![arg[t]] = val[t]]
             /\ previous_inputs' = [previous_inputs EXCEPT ![arg[t]] =
                    IF current_inputs[arg[t]] = None THEN val[t] ELSE current_inputs[arg[t]]]]_vars

\* C8 witness: two callbacks for different labels ran at the same time and both
\* have recorded their edge.
C8_Witness ==
    \E t, u \in Workers :
        /\ t # u /\ arg[t] # arg[u]
        /\ pc[t] = "ev_lock" /\ pc[u] = "ev_lock"
        /\ current_inputs[arg[t]] = ACTIVE /\ previous_inputs[arg[t]] = INACTIVE
        /\ current_inputs[arg[u]] = ACTIVE /\ previous_inputs[arg[u]] = INACTIVE

\* C9: while the phase is idle no step of an input callback changes the phase or
\* the timer.
C9_InputsInertWhileIdle ==
    [][\A t \in Threads :
          (op[t] = "callback" /\ Steps(t) /\ game_state = "idle")
             => (game_state' = "idle" /\ UNCHANGED timer)]_vars

\* C10: no thread publishes an event while it holds the state lock.
C10_NoPublishUnderLock ==
    [][\A t \in Threads : Len(burst'[t]) > Len(burst[t]) => lock # t]_vars

\* thread t takes a step that commands the audio sink or a relay device
SinkCall(t) == Steps(t) /\ pc[t] \in {"sgs_branch", "arp_loop", "rt_dev"}

\* C11: no thread commands the audio sink or a relay device while it holds the
\* state lock.
C11_NoSinkCallUnderLock ==
    [][\A t \in Threads : SinkCall(t) => lock # t]_vars

\* the number of events of the given type in a burst
CountType(b, type) == Cardinality({i \in 1..Len(b) : b[i].type = type})

\* C12: the step that ends a set_game_state call publishes the full_state event
\* as the call's last event, directly after the call's timer event, which comes
\* directly after the call's one game_state event carrying the new phase.
C12_EventOrder ==
    [][\A t \in Threads :
          (pc[t] = "sgs_pub_full" /\ Steps(t)) =>
             LET b == burst'[t]
                 n == Len(b)
             IN /\ n >= 3
                /\ b[n].type = "full_state"
                /\ b[n - 1].type = "timer"
                /\ b[n - 2].type = "game_state"
                /\ b[n - 2].game_state = arg[t]
                /\ CountType(b, "game_state") = 1
                /\ pc'[t] \in {"ret", "serving"}]_vars

\* C12 witness: a callback whose rule fired has returned from set_game_state with
\* its input event followed by the relays, game_state, timer and full_state events.
C12_Witness ==
    \E t \in Workers :
        /\ op[t] = "callback" /\ pc[t] = "ret" /\ Len(burst[t]) = 5
        /\ [i \in 1..5 |-> burst[t][i].type]
             = <<"input", "relays", "game_state", "timer", "full_state">>
        /\ burst[t][3].game_state = arg[t]

\* publish serves the next queue of its copy
PublishPuts == pub_event # 0 /\ clients_copy # <<>> /\ clients_copy' = Tail(clients_copy)

\* C13: when publish finds a subscriber's queue full, that queue loses its oldest
\* pending event and takes the new one; a queue with room takes the new event;
\* no other subscriber's queue changes in that step.
C13_OverloadDropsOldest ==
    [][PublishPuts =>
          LET q == Head(clients_copy)
          IN /\ queues'[q] = IF Len(queues[q]) >= MaxQueue
                             THEN Append(Tail(queues[q]), pub_event)
                             ELSE Append(queues[q], pub_event)
             /\ \A r \in Subscribers \ {q} : queues'[r] = queues[r]]_vars

\* thread t spawns the poweroff command
IssuesPoweroff(t) == pc[t] = "po_cmd" /\ Steps(t)

\* C14: a poweroff request made while the phase is not idle is answered not_idle
\* and issues no command, and the poweroff command is issued only at a moment
\* when the phase is idle.
C14_PoweroffOnlyWhenIdle ==
    [][\A t \in Threads :
          /\ (pc[t] = "idle" /\ op'[t] = "poweroff" /\ game_state # "idle")
                => (pc'[t] = "ret" /\ result'[t] = "not_idle" /\ burst'[t] = <<>>)
          /\ IssuesPoweroff(t) => game_state = "idle"]_vars

\* thread t takes the step that resets the timer on entering idle
ResetsTimer(t) == pc[t] = "sgs_branch" /\ Steps(t) /\ arg[t] = "idle"

\* C15: timer_started_at is set exactly when timer_running is true, and
\* timer_elapsed_base never decreases from one state to the next, except that the
\* idle branch of set_game_state sets it to zero.
C15_TimerInvariants ==
    [][/\ (timer_started_at' # NoTime) <=> timer_running'
       /\ \/ timer_elapsed_base' >= timer_elapsed_base
          \/ timer_elapsed_base' = 0 /\ \E t \in Threads : ResetsTimer(t)]_vars

\* C15 witness: the timer has run and been stopped with time accumulated, and a
\* request for idle is in its locked block, about to set the time back to zero.
C15_Witness ==
    \E t \in Workers :
        /\ op[t] = "admin" /\ arg[t] = "idle" /\ pc[t] = "sgs_branch" /\ lock = t
        /\ ~timer_running /\ timer_started_at = NoTime /\ timer_elapsed_base > 1

\* C16: no step of a set_game_state("scene_2") or set_game_state("end_game") call
\* changes timer_running, timer_started_at or timer_elapsed_base.
C16_LaterScenesKeepTimer ==
    [][\A t \in Threads :
          (InSetGameState(t) /\ Steps(t) /\ arg[t] \in {"scene_2", "end_game"})
             => UNCHANGED timer]_vars

\* C16 witness: a request has made end_game the phase and returned, and the timer
\* started in scene_1 is still running.
C16_Witness ==
    \E t \in Workers :
        /\ op[t] = "admin" /\ arg[t] = "end_game" /\ pc[t] = "ret" /\ result[t] = "ok"
        /\ game_state = "end_game"
        /\ timer_running /\ timer_started_at # NoTime /\ timer_elapsed_base = 0

\* C17: the timer goes from running to not running only in the idle branch of
\* set_game_state or in the stop_timer of an input callback taking effect while
\* the phase is end_game.
C17_TimerStopsOnlyInEndGame ==
    [][(timer_running /\ ~timer_running') =>
          \E t \in Threads :
             \/ ResetsTimer(t)
             \/ /\ pc[t] = "st_lock" /\ Steps(t) /\ op[t] = "callback"
                /\ game_state = "end_game"]_vars

\* C18: the full_state event that ends a set_game_state call carries the phase of
\* that call's game_state event and the timer.running of that call's timer event.
C18_FullStateConsistent ==
    [][\A t \in Threads :
          (pc[t] = "sgs_pub_full" /\ Steps(t)) =>
             LET b == burst'[t]
                 n == Len(b)
             IN /\ n >= 3
                /\ b[n].game_state = b[n - 2].game_state
                /\ b[n].running = b[n - 1].running]_vars

\* thread t is inside a manual toggle
InRelayToggle(t) == pc[t] \in {"rt_lock", "rt_dev"}

\* C19: whenever no set_game_state call and no manual toggle is in progress,
\* current_relays[r] is the last command sent to the device of r, for every relay r.
C19_RelaysMirrorHardware ==
    (\A t \in Threads : ~InSetGameState(t) /\ ~InRelayToggle(t))
        => current_relays = relay_devices

\* the callback of a toggle 1 change has recorded its ACTIVE reading, the snapshot
\* shows the INACTIVE -> ACTIVE edge, the phase is scene_2 and the rules have not
\* yet been evaluated for that change
Toggle1EdgeRecorded ==
    \E t \in Threads :
        /\ op[t] = "callback" /\ pc[t] = "ev_lock"
        /\ arg[t] = "toggle 1" /\ val[t] = ACTIVE
        /\ Toggle1Rose
        /\ game_state = "scene_2"

\* C20: an INACTIVE -> ACTIVE edge recorded on toggle 1 in scene_2 leads to the
\* phase end_game, unless the phase leaves scene_2 otherwise.
C20_Toggle1EdgeLeadsToEndGame ==
    Toggle1EdgeRecorded ~> (game_state # "scene_2")

====
